---- MODULE Spec2Model ----
(***************************************************************************)
(* Model of the think-thoroughly agent                                     *)
(* (prediction_market_agent/agents/think_thoroughly_agent/                 *)
(*  think_thoroughly_agent.py): CrewAIAgentSubquestions.answer_binary_     *)
(* market with its scenario generators, the per-scenario prediction tasks  *)
(* run through par_generator, the final decision, and the retrying search  *)
(* tool TavilySearchResultsThatWillThrow.                                  *)
(*                                                                         *)
(* The language model, the search provider and the thread pool are the     *)
(* environment: their outputs and the order in which pool tasks advance    *)
(* are chosen nondeterministically.                                        *)
(***************************************************************************)
EXTENDS Integers, Sequences, FiniteSets, TLC

VARIABLES
    pc,                     \* position of answer_binary_market
    n_iterations,           \* argument n_iterations
    hypothetical_scenarios, \* hypothetical_scenarios.scenarios
    conditional_scenarios,  \* conditional_scenarios.scenarios
    scenarios_with_probs,   \* the list the local variable is bound to
    iteration,              \* loop variable of the for loop over range(n_iterations)
    sub_predictions,        \* state of the generator returned by par_generator
    tasks,                  \* one pool task per submitted scenario
    final_answer,           \* value returned by answer_binary_market
    raised_in,              \* where an exception left answer_binary_market
    hypothetical_raw,       \* history: what the model returned for the hypothetical set
    conditional_raw,        \* history: what the model returned for the conditional set
    gen_calls,              \* history: calls of the two scenario generators
    prev_results,           \* history: what each scenario's task returned in the previous round
    n_calls,                \* history: generate_prediction_for_one_outcome calls per scenario
    rounds_run,             \* history: rounds whose tasks were submitted
    any_answer,             \* history: some prediction of this run returned an Answer
    agg_calls,              \* history: generate_final_decision invocations
    agg_arg,                \* history: scenarios_with_probabilities it was given
    agg_output,             \* history: what its crew produced
    call,                   \* one generate_prediction_for_one_outcome call, step by step
    tool_pc,                \* position of one search tool invocation
    tool_mode,              \* "_run" or "_arun"
    attempt_number,         \* tenacity's attempt counter
    provider_log,           \* history: outcome of every provider call of the invocation
    invocations,            \* history: tool invocations started
    tool_outcome,           \* what the invocation gave its caller
    slept,                  \* seconds waited between attempts
    agent_pc,               \* position of DeployableKnownOutcomeAgent
    markets,                \* argument markets of pick_markets
    market_idx,             \* position of "for market in markets"
    picked_markets,         \* the local list picked_markets
    markets_with_known_outcomes, \* self.markets_with_known_outcomes
    lookup_raised,          \* history: positions whose get_known_outcome raised
    recorded,               \* history: the answer get_known_outcome gave for the pick
    pick_calls,             \* history: calls of pick_markets
    binary_answer           \* what answer_binary_market found for the picked market

vars == <<pc, n_iterations, hypothetical_scenarios, conditional_scenarios,
          scenarios_with_probs, iteration, sub_predictions, tasks,
          final_answer, raised_in, hypothetical_raw, conditional_raw,
          gen_calls, prev_results, n_calls, rounds_run, any_answer, agg_calls, agg_arg, agg_output,
          call, tool_pc, tool_mode, attempt_number, provider_log,
          invocations, tool_outcome, slept, agent_pc, markets, market_idx,
          picked_markets, markets_with_known_outcomes, lookup_raised,
          recorded, pick_calls, binary_answer>>

pipeline_vars == <<pc, n_iterations, hypothetical_scenarios,
                   conditional_scenarios, scenarios_with_probs, iteration,
                   sub_predictions, tasks, final_answer, raised_in,
                   hypothetical_raw, conditional_raw, gen_calls,
                   prev_results, n_calls, rounds_run, any_answer, agg_calls,
                   agg_arg, agg_output>>

tool_vars == <<tool_pc, tool_mode, attempt_number, provider_log,
               invocations, tool_outcome, slept>>

agent_vars == <<agent_pc, markets, market_idx, picked_markets,
                markets_with_known_outcomes, lookup_raised, recorded,
                pick_calls, binary_answer>>

----------------------------------------------------------------------------
(* Bounds of the model *)

MaxIterations == 2      \* n_iterations ranges over 0..MaxIterations
MaxHypothetical == 1    \* longest raw hypothetical list the model returns
MaxConditional == 1     \* longest raw conditional list the model returns
MaxToolsErrors == 1     \* largest tools_errors count of a crew task
MaxInvocations == 2     \* search tool invocations explored one after another
MaxRawScenarios == 3    \* longest raw list in the scenario generator specification
MaxPrevious == 1        \* longest previous_scenarios_and_answers of a single call
MaxProviderAnswers == 4 \* provider answers scripted for one search of a research step
MaxMarkets == 3         \* longest list of markets given to pick_markets
MaxPickCalls == 2       \* pick_markets calls explored one after another

----------------------------------------------------------------------------
(* Values *)

question == "Q"
ScenarioStrings == {"Q", "A"}

\* Values of type "Answer | None" and model outputs are tagged records.
None == [tag |-> "None"]
Malformed == [tag |-> "Malformed"]
NotSet == [tag |-> "NotSet"]
Raised(e) == [tag |-> "Raised", exc |-> e]

\* Answer (prediction_market_agent_tooling.deploy.agent.Answer), as far as
\* this file reads it: p_yes and confidence, in percent.
Answers == {[tag |-> "Answer", p_yes |-> 30, confidence |-> 50],
            [tag |-> "Answer", p_yes |-> 70, confidence |-> 90]}

\* Output of a scenario-generating crew: either text that parses as
\* Scenarios or text that does not.
ParsedScenarios(l) == [parses |-> TRUE, scenarios |-> l]
Unparsable == [parses |-> FALSE, scenarios |-> <<>>]

SeqsUpTo(S, n) == UNION {[1..k -> S] : k \in 0..n}

Count(x, s) == Cardinality({i \in 1..Len(s) : s[i] = x})

----------------------------------------------------------------------------
(* Pure pieces of the code *)

\* Variant: an output that does not parse counts as an empty list.
ValidateScenarios_Lenient(raw) == [kind |-> "return", value |-> raw.scenarios]

\* "scenarios = Scenarios.model_validate_json(result)" of both generators
ValidateScenarios(raw) ==
    IF raw.parses
    THEN [kind |-> "return", value |-> raw.scenarios]
    ELSE [kind |-> "raise", value |-> <<>>]

\* get_hypohetical_scenarios: "if question not in scenarios.scenarios:
\* scenarios.scenarios.append(question)"
AddOriginalQuestion(scenarios, q) ==
    IF \E i \in 1..Len(scenarios) : scenarios[i] = q
    THEN scenarios
    ELSE Append(scenarios, q)

\* generate_prediction_for_one_outcome: description of task_research_one_outcome
ResearchPrompt(previous_scenarios_and_answers) ==
    IF previous_scenarios_and_answers = <<>>
    THEN "RESEARCH_OUTCOME_PROMPT"
    ELSE "RESEARCH_OUTCOME_WITH_PREVIOUS_OUTPUTS_PROMPT"

\* generate_prediction_for_one_outcome from crew.kickoff on: kick is how
\* kickoff ended, r_errors and p_errors are the tools_errors of the research
\* and of the probability task, output is what kickoff returned.
\* "except (APIError, HTTPError)"
ProviderErrorCaught(kick) == kick \in {"APIError", "HTTPError"}

\* Variant: only the probability task's tool errors are looked at.
ToolsFailed_PredictionOnly(r_errors, p_errors) == p_errors > 0

\* Variant: only the research task's tool errors are looked at.
ToolsFailed_ResearchOnly(r_errors, p_errors) == r_errors > 0

\* "task_research_one_outcome.tools_errors > 0
\*  or task_create_probability_for_one_outcome.tools_errors > 0"
ToolsFailed(r_errors, p_errors) == r_errors > 0 \/ p_errors > 0

\* "try: Answer.model_validate(result) ... except ValueError: return None"
ValidateAnswer(output) == IF output = Malformed THEN None ELSE output

PredictionReturn(kick, r_errors, p_errors, output) ==
    IF ProviderErrorCaught(kick) THEN None
    ELSE IF ToolsFailed(r_errors, p_errors) THEN None
    ELSE ValidateAnswer(output)

\* One line of inputs["previous_scenarios_with_probabilities"]: the scenario,
\* p_yes and confidence of the pair (reasoning is not modelled).
SerializePair(pair) ==
    [scenario |-> pair[1], p_yes |-> pair[2].p_yes,
     confidence |-> pair[2].confidence]

\* inputs of crew.kickoff in generate_prediction_for_one_outcome
PredictionInputs(sentence, previous_scenarios_and_answers) ==
    [sentence |-> sentence,
     has_previous |-> previous_scenarios_and_answers # <<>>,
     previous_scenarios_with_probabilities |->
        [i \in 1..Len(previous_scenarios_and_answers) |->
            SerializePair(previous_scenarios_and_answers[i])]]

\* Variant: one attempt more.
StopAfterAttempt_Four(attempt) == attempt >= 4

\* tenacity.stop_after_attempt(3)
StopAfterAttempt(attempt) == attempt >= 3

\* tenacity.wait_fixed(1)
WaitFixed == 1

\* Variant: the bound of the range is included.
LoopContinues_Inclusive(it, n) == it <= n

\* Variant: the loop stops once a round has produced an Answer.
LoopContinues_EarlyExit(it, n) ==
    it < n /\ ~(it > 0 /\ scenarios_with_probs # <<>>)

\* range(n_iterations) still has an element for the loop variable
LoopContinues(it, n) == it < n

\* Variant: the conditional scenarios come first.
ParItems_ConditionalFirst(hypothetical, conditional) ==
    conditional \o hypothetical

\* "hypothetical_scenarios.scenarios + conditional_scenarios.scenarios"
ParItems(hypothetical, conditional) == hypothetical \o conditional

\* Variant: the list of the previous round is kept and appended to.
NewRoundState_Merge == scenarios_with_probs

\* "scenarios_with_probs = []" inside the loop
NewRoundState == <<>>

\* Variant: the None check is missing.
CollectPrediction_KeepNone(collected, scenario, prediction) ==
    Append(collected, <<scenario, prediction>>)

\* body of "for scenario, prediction in sub_predictions"
CollectPrediction(collected, scenario, prediction) ==
    IF prediction = None
    THEN collected
    ELSE Append(collected, <<scenario, prediction>>)

\* Variant: the for loop is left after the first yielded pair.
GeneratorExhausted_First(ts) == \E i \in 1..Len(ts) : ts[i].status = "yielded"

\* The generator stops the for loop once every submitted task was yielded.
GeneratorExhausted(ts) == \A i \in 1..Len(ts) : ts[i].status = "yielded"

\* Variant: the final decision is generated unconditionally.
FinalDecisionNeeded_Always(collected) == TRUE

\* "... if scenarios_with_probs else None"
FinalDecisionNeeded(collected) == collected # <<>>

\* Variant: a malformed output falls back to an undetermined Answer.
GenerateFinalDecision_Default(kick, raw_output) ==
    IF kick # "ok" THEN [kind |-> "raise", value |-> kick]
    ELSE IF raw_output = Malformed
         THEN [kind |-> "return",
               value |-> CHOOSE a \in Answers : \A b \in Answers :
                                                  a.confidence <= b.confidence]
         ELSE [kind |-> "return", value |-> raw_output]

\* Variant: a malformed output is swallowed and None returned.
GenerateFinalDecision_Swallow(kick, raw_output) ==
    IF kick # "ok" THEN [kind |-> "raise", value |-> kick]
    ELSE IF raw_output = Malformed
         THEN [kind |-> "return", value |-> None]
         ELSE [kind |-> "return", value |-> raw_output]

\* generate_final_decision: crew.kickoff is not guarded and
\* Answer.model_validate_json raises on a malformed output.
GenerateFinalDecision(kick, raw_output) ==
    IF kick # "ok" THEN [kind |-> "raise", value |-> kick]
    ELSE IF raw_output = Malformed
         THEN [kind |-> "raise", value |-> "ValidationError"]
         ELSE [kind |-> "return", value |-> raw_output]

\* Probabilities are kept in hundredths: 0.95 is 95.
SaturationThreshold == 95

\* Variant: only the yes side is compared.
market_is_saturated_YesOnly(market) == market.p_yes > SaturationThreshold

\* "return market.p_yes > 0.95 or market.p_no > 0.95"
market_is_saturated(market) ==
    market.p_yes > SaturationThreshold \/ market.p_no > SaturationThreshold

\* "self.markets_with_known_outcomes: dict[str, Result] = {}"
EmptyDict == [id \in {} |-> ""]

\* "self.markets_with_known_outcomes[market.id] = answer.result"
DictSet(dict, key, value) ==
    [id \in DOMAIN dict \cup {key} |-> IF id = key THEN value ELSE dict[id]]

\* "self.markets_with_known_outcomes[market.id]" of answer_binary_market
DictGet(dict, key) ==
    IF key \in DOMAIN dict
    THEN [kind |-> "found", result |-> dict[key]]
    ELSE [kind |-> "KeyError", result |-> ""]

----------------------------------------------------------------------------
(* Environment inputs *)

RawHypothetical ==
    {ParsedScenarios(l) : l \in SeqsUpTo(ScenarioStrings, MaxHypothetical)}
        \cup {Unparsable}
RawConditional ==
    {ParsedScenarios(l) : l \in SeqsUpTo(ScenarioStrings, MaxConditional)}
        \cup {Unparsable}
\* How crew.kickoff of a scenario's crew ends: it returns, or the model
\* provider fails with openai.APIError or requests.HTTPError.  Errors of
\* tools are not raised by kickoff: they are counted in tools_errors.
KickoffOutcomes == {"ok", "APIError", "HTTPError"}
ModelOutputs == Answers \cup {Malformed}

\* Every value generate_prediction_for_one_outcome can return
PredictionReturns ==
    {PredictionReturn(kick, r_errors, p_errors, output) :
        kick \in KickoffOutcomes, r_errors \in 0..MaxToolsErrors,
        p_errors \in 0..MaxToolsErrors, output \in ModelOutputs}

PreviousLists == SeqsUpTo(ScenarioStrings \X Answers, MaxPrevious)

NoInputs == PredictionInputs("", <<>>)

NoCall ==
    [pc |-> "idle", sentence |-> "", previous |-> <<>>, prompt |-> "",
     inputs |-> NoInputs, kick |-> "", r_errors |-> 0, p_errors |-> 0,
     output |-> NotSet, returned |-> NotSet]

\* What the search provider does on one call
ProviderResults == {"results1", "results2"}
ProviderErrors == {"HTTPError", "ConnectionError"}

\* One invocation of the decorated _run as a function of what the provider
\* answers on its successive calls: the first result is returned, an error
\* is re-raised once tenacity stops (or the script ends), otherwise the
\* next attempt is made.
RECURSIVE RunWithRetry(_, _)
RunWithRetry(script, attempt) ==
    IF script[attempt] \in ProviderResults
    THEN [tag |-> "Returned", value |-> script[attempt]]
    ELSE IF StopAfterAttempt(attempt) \/ attempt >= Len(script)
         THEN [tag |-> "Raised", exc |-> script[attempt]]
         ELSE RunWithRetry(script, attempt + 1)

\* tools_errors of the research task, whose only tool is the search tool: a
\* tool run that raised is counted by the crew on top of the other errors.
ResearchToolsErrors(other_errors, search) ==
    IF search.tag = "Raised" THEN other_errors + 1 ELSE other_errors

\* The search of a research step: none, or one run of the tool against a
\* script of provider answers.
SearchScripts == [1..MaxProviderAnswers -> ProviderResults \cup ProviderErrors]
SearchOutcomes == {NotSet} \cup {RunWithRetry(script, 1) : script \in SearchScripts}

\* Every way a scenario task can end: what
\* generate_prediction_for_one_outcome returns, and whether the search tool
\* of its research step gave up after its retries.
TaskOutcomes ==
    {[returned |-> PredictionReturn(kick, ResearchToolsErrors(r_errors, search),
                                    p_errors, output),
      search_exhausted |-> (search.tag = "Raised")] :
        kick \in KickoffOutcomes, r_errors \in 0..MaxToolsErrors,
        p_errors \in 0..MaxToolsErrors, output \in ModelOutputs,
        search \in SearchOutcomes}

NewTask(s) ==
    [scenario |-> s, status |-> "pending", prompt |-> "",
     previous |-> <<>>, result |-> NotSet, search_exhausted |-> FALSE]

----------------------------------------------------------------------------
(* State after construction: answer_binary_market(question, n_iterations)  *)
(* is about to run; one search tool invocation is about to be made.        *)

\* DeployableKnownOutcomeAgent after load(): no outcome is recorded yet.
InitKnownOutcomeAgent ==
    /\ agent_pc = "idle"
    /\ markets = <<>>
    /\ market_idx = 0
    /\ picked_markets = <<>>
    /\ markets_with_known_outcomes = EmptyDict
    /\ lookup_raised = {}
    /\ recorded = NotSet
    /\ pick_calls = 0
    /\ binary_answer = NotSet

Init ==
    /\ pc = "get_hypohetical_scenarios"
    /\ n_iterations \in -1..MaxIterations
    /\ hypothetical_scenarios = <<>>
    /\ conditional_scenarios = <<>>
    /\ scenarios_with_probs = <<>>
    /\ iteration = 0
    /\ sub_predictions = "none"
    /\ tasks = <<>>
    /\ final_answer = NotSet
    /\ raised_in = ""
    /\ hypothetical_raw = Unparsable
    /\ conditional_raw = Unparsable
    /\ gen_calls = [hypothetical |-> 0, conditional |-> 0]
    /\ prev_results = <<>>
    /\ n_calls = <<>>
    /\ rounds_run = 0
    /\ any_answer = FALSE
    /\ agg_calls = 0
    /\ agg_arg = <<>>
    /\ agg_output = NotSet
    /\ call = NoCall
    /\ tool_pc = "idle"
    /\ invocations = 0
    /\ tool_mode = ""
    /\ attempt_number = 0
    /\ provider_log = <<>>
    /\ tool_outcome = NotSet
    /\ slept = 0
    /\ InitKnownOutcomeAgent

----------------------------------------------------------------------------
(* answer_binary_market *)

GetHypotheticalScenarios(RawOutputs) ==
    /\ pc = "get_hypohetical_scenarios"
    /\ \E raw \in RawOutputs :
        LET scenarios == ValidateScenarios(raw)
        IN /\ hypothetical_raw' = raw
           /\ gen_calls' = [gen_calls EXCEPT !.hypothetical = @ + 1]
           /\ IF scenarios.kind = "raise"
              THEN /\ pc' = "raised"
                   /\ raised_in' = "get_hypohetical_scenarios"
                   /\ UNCHANGED hypothetical_scenarios
              ELSE /\ hypothetical_scenarios' =
                          AddOriginalQuestion(scenarios.value, question)
                   /\ pc' = "get_required_conditions"
                   /\ UNCHANGED raised_in
    /\ UNCHANGED <<n_iterations, conditional_scenarios, scenarios_with_probs,
                   iteration, sub_predictions, tasks, final_answer,
                   prev_results, n_calls, rounds_run,
                   agg_calls, agg_arg, agg_output,
                   any_answer,
                   conditional_raw>>
    /\ UNCHANGED <<call, tool_vars, agent_vars>>

get_hypohetical_scenarios == GetHypotheticalScenarios(RawHypothetical)

GetRequiredConditions(RawOutputs) ==
    /\ pc = "get_required_conditions"
    /\ \E raw \in RawOutputs :
        LET scenarios == ValidateScenarios(raw)
        IN /\ conditional_raw' = raw
           /\ gen_calls' = [gen_calls EXCEPT !.conditional = @ + 1]
           /\ IF scenarios.kind = "raise"
              THEN /\ pc' = "raised"
                   /\ raised_in' = "get_required_conditions"
                   /\ UNCHANGED <<conditional_scenarios, n_calls>>
              ELSE /\ conditional_scenarios' = scenarios.value
                   /\ n_calls' = [i \in 1..(Len(hypothetical_scenarios)
                                              + Len(scenarios.value)) |-> 0]
                   /\ pc' = "loop"
                   /\ UNCHANGED raised_in
    /\ UNCHANGED <<n_iterations, hypothetical_scenarios, scenarios_with_probs,
                   iteration, sub_predictions, tasks, final_answer,
                   hypothetical_raw, prev_results, rounds_run,
                   agg_calls, agg_arg, agg_output,
                   any_answer>>
    /\ UNCHANGED <<call, tool_vars, agent_vars>>

get_required_conditions == GetRequiredConditions(RawConditional)

\* "for iteration in range(n_iterations)" and the call of par_generator,
\* which only creates the generator: nothing is submitted yet.
LoopHead ==
    /\ pc = "loop"
    /\ IF LoopContinues(iteration, n_iterations)
       THEN /\ sub_predictions' = "created"
            /\ pc' = "reset"
       ELSE /\ sub_predictions' = sub_predictions
            /\ pc' = "final"
    /\ UNCHANGED <<n_iterations, hypothetical_scenarios, conditional_scenarios,
                   scenarios_with_probs, iteration, tasks, final_answer,
                   raised_in, hypothetical_raw, prev_results, n_calls,
                   rounds_run, agg_calls, agg_arg, agg_output,
                   any_answer,
                   conditional_raw, gen_calls>>
    /\ UNCHANGED <<call, tool_vars, agent_vars>>

ResetRoundState ==
    /\ pc = "reset"
    /\ scenarios_with_probs' = NewRoundState
    /\ pc' = "for"
    /\ UNCHANGED <<n_iterations, hypothetical_scenarios, conditional_scenarios,
                   iteration, sub_predictions, tasks, final_answer, raised_in,
                   hypothetical_raw, prev_results, n_calls, rounds_run,
                   agg_calls, agg_arg, agg_output,
                   any_answer,
                   conditional_raw, gen_calls>>
    /\ UNCHANGED <<call, tool_vars, agent_vars>>

\* par_generator (prediction_market_agent_tooling.tools.parallelism) is a
\* generator: the first next() of the for loop runs its body up to the first
\* yield, which submits one pool task per item; results are then yielded as
\* tasks complete.
par_generator ==
    /\ pc = "for"
    /\ sub_predictions = "created"
    /\ LET items == ParItems(hypothetical_scenarios, conditional_scenarios)
       IN tasks' = [i \in 1..Len(items) |-> NewTask(items[i])]
    /\ prev_results' = [i \in 1..Len(tasks) |-> tasks[i].result]
    /\ sub_predictions' = "running"
    /\ rounds_run' = rounds_run + 1
    /\ UNCHANGED <<pc, n_iterations, hypothetical_scenarios,
                   conditional_scenarios, scenarios_with_probs, iteration,
                   final_answer, raised_in, hypothetical_raw, n_calls, agg_calls, agg_arg,
                   agg_output,
                   any_answer,
                   conditional_raw, gen_calls>>
    /\ UNCHANGED <<call, tool_vars, agent_vars>>

\* A pool thread calls the lambda: it reads the variable scenarios_with_probs
\* now, passes that list on, and generate_prediction_for_one_outcome picks the
\* research prompt from it.
TaskStart(i) ==
    /\ sub_predictions = "running"
    /\ tasks[i].status = "pending"
    /\ tasks' = [tasks EXCEPT ![i].status = "started",
                              ![i].prompt = ResearchPrompt(scenarios_with_probs)]
    /\ n_calls' = [n_calls EXCEPT ![i] = @ + 1]
    /\ UNCHANGED <<pc, n_iterations, hypothetical_scenarios,
                   conditional_scenarios, scenarios_with_probs, iteration,
                   sub_predictions, final_answer, raised_in, hypothetical_raw,
                   prev_results, rounds_run, agg_calls,
                   agg_arg, agg_output,
                   any_answer,
                   conditional_raw, gen_calls>>
    /\ UNCHANGED <<call, tool_vars, agent_vars>>

\* "if previous_scenarios_and_answers: inputs[...] = ..." reads the same list
\* object again, then crew.kickoff starts.
TaskBuildInputs(i) ==
    /\ sub_predictions = "running"
    /\ tasks[i].status = "started"
    /\ tasks' = [tasks EXCEPT ![i].status = "kickoff",
                              ![i].previous = scenarios_with_probs]
    /\ UNCHANGED <<pc, n_iterations, hypothetical_scenarios,
                   conditional_scenarios, scenarios_with_probs, iteration,
                   sub_predictions, final_answer, raised_in, hypothetical_raw,
                   prev_results, n_calls, rounds_run,
                   agg_calls, agg_arg, agg_output,
                   any_answer,
                   conditional_raw, gen_calls>>
    /\ UNCHANGED <<call, tool_vars, agent_vars>>

\* crew.kickoff ends and generate_prediction_for_one_outcome returns.
TaskFinish(i) ==
    /\ sub_predictions = "running"
    /\ tasks[i].status = "kickoff"
    /\ \E outcome \in TaskOutcomes :
        /\ tasks' = [tasks EXCEPT ![i].status = "completed",
                                  ![i].prompt = "",
                                  ![i].previous = <<>>,
                                  ![i].result = outcome.returned,
                                  ![i].search_exhausted =
                                        outcome.search_exhausted]
        /\ any_answer' = (any_answer \/ outcome.returned \in Answers)
    /\ UNCHANGED <<pc, n_iterations, hypothetical_scenarios,
                   conditional_scenarios, scenarios_with_probs, iteration,
                   sub_predictions, final_answer, raised_in, hypothetical_raw,
                   prev_results, n_calls, rounds_run, agg_calls, agg_arg,
                   agg_output,
                   conditional_raw, gen_calls>>
    /\ UNCHANGED <<call, tool_vars, agent_vars>>

\* par_generator yields a finished task's pair and the loop body handles it.
Collect(i) ==
    /\ pc = "for"
    /\ sub_predictions = "running"
    /\ tasks[i].status = "completed"
    /\ scenarios_with_probs' =
           CollectPrediction(scenarios_with_probs, tasks[i].scenario,
                             tasks[i].result)
    /\ tasks' = [tasks EXCEPT ![i].status = "yielded",
                              ![i].search_exhausted = FALSE]
    /\ UNCHANGED <<pc, n_iterations, hypothetical_scenarios,
                   conditional_scenarios, iteration, sub_predictions,
                   final_answer, raised_in, hypothetical_raw,
                   prev_results, n_calls, rounds_run,
                   agg_calls, agg_arg, agg_output,
                   any_answer,
                   conditional_raw, gen_calls>>
    /\ UNCHANGED <<call, tool_vars, agent_vars>>

\* The generator is exhausted: the for loop over sub_predictions ends.
EndRound ==
    /\ pc = "for"
    /\ sub_predictions = "running"
    /\ GeneratorExhausted(tasks)
    /\ sub_predictions' = "exhausted"
    /\ iteration' = iteration + 1
    /\ pc' = "loop"
    /\ UNCHANGED <<n_iterations, hypothetical_scenarios, conditional_scenarios,
                   scenarios_with_probs, tasks, final_answer, raised_in,
                   hypothetical_raw, prev_results, n_calls, rounds_run,
                   agg_calls, agg_arg, agg_output,
                   any_answer,
                   conditional_raw, gen_calls>>
    /\ UNCHANGED <<call, tool_vars, agent_vars>>

FinalDecision ==
    /\ pc = "final"
    /\ IF FinalDecisionNeeded(scenarios_with_probs)
       THEN \E kick \in {"ok", "APIError"}, raw_output \in ModelOutputs :
              LET r == GenerateFinalDecision(kick, raw_output)
              IN /\ agg_calls' = agg_calls + 1
                 /\ agg_arg' = scenarios_with_probs
                 /\ agg_output' = IF kick = "ok" THEN raw_output ELSE Raised(kick)
                 /\ IF r.kind = "raise"
                    THEN /\ pc' = "raised"
                         /\ raised_in' = "generate_final_decision"
                         /\ UNCHANGED final_answer
                    ELSE /\ pc' = "done"
                         /\ final_answer' = r.value
                         /\ UNCHANGED raised_in
       ELSE /\ final_answer' = None
            /\ pc' = "done"
            /\ UNCHANGED <<raised_in, agg_calls, agg_arg, agg_output>>
    /\ UNCHANGED <<n_iterations, hypothetical_scenarios, conditional_scenarios,
                   scenarios_with_probs, iteration, sub_predictions, tasks,
                   hypothetical_raw, prev_results, n_calls, rounds_run,
                   any_answer,
                   conditional_raw, gen_calls>>
    /\ UNCHANGED <<call, tool_vars, agent_vars>>

Next ==
    \/ get_hypohetical_scenarios
    \/ get_required_conditions
    \/ LoopHead
    \/ ResetRoundState
    \/ par_generator
    \/ \E i \in 1..Len(tasks) : TaskStart(i)
    \/ \E i \in 1..Len(tasks) : TaskBuildInputs(i)
    \/ \E i \in 1..Len(tasks) : TaskFinish(i)
    \/ \E i \in 1..Len(tasks) : Collect(i)
    \/ EndRound
    \/ FinalDecision

Spec == Init /\ [][Next]_vars

----------------------------------------------------------------------------
(* The scenario generators alone, over longer raw outputs *)

RawLong ==
    {ParsedScenarios(l) : l \in SeqsUpTo(ScenarioStrings, MaxRawScenarios)}
        \cup {Unparsable}

GenerateHypothetical == GetHypotheticalScenarios(RawLong)

GenerateConditional == GetRequiredConditions(RawLong)

NextScenarios == GenerateHypothetical \/ GenerateConditional

SpecScenarios == Init /\ [][NextScenarios]_vars

----------------------------------------------------------------------------
(* One call of generate_prediction_for_one_outcome, statement by statement *)

CallEnter ==
    /\ call.pc = "idle"
    /\ \E sentence \in ScenarioStrings, previous \in PreviousLists :
        call' = [NoCall EXCEPT !.pc = "entry", !.sentence = sentence,
                               !.previous = previous]
    /\ UNCHANGED <<pipeline_vars, tool_vars, agent_vars>>

\* Tasks, crew and inputs are built.
CallPrepare ==
    /\ call.pc = "entry"
    /\ call' = [call EXCEPT !.pc = "kickoff",
                            !.prompt = ResearchPrompt(call.previous),
                            !.inputs = PredictionInputs(call.sentence,
                                                        call.previous)]
    /\ UNCHANGED <<pipeline_vars, tool_vars, agent_vars>>

\* "try: result = crew.kickoff(inputs=inputs) except (APIError, HTTPError)"
CallKickoff ==
    /\ call.pc = "kickoff"
    /\ \E kick \in KickoffOutcomes, r_errors \in 0..MaxToolsErrors,
          p_errors \in 0..MaxToolsErrors, output \in ModelOutputs :
        IF kick = "ok"
        THEN call' = [call EXCEPT !.pc = "tools_check", !.kick = kick,
                                  !.r_errors = r_errors,
                                  !.p_errors = p_errors,
                                  !.output = output]
        ELSE IF ProviderErrorCaught(kick)
        THEN call' = [call EXCEPT !.pc = "returned", !.kick = kick,
                                  !.r_errors = r_errors,
                                  !.p_errors = p_errors,
                                  !.returned = None]
        ELSE call' = [call EXCEPT !.pc = "raised", !.kick = kick,
                                  !.r_errors = r_errors,
                                  !.p_errors = p_errors]
    /\ UNCHANGED <<pipeline_vars, tool_vars, agent_vars>>

CallToolsCheck ==
    /\ call.pc = "tools_check"
    /\ IF ToolsFailed(call.r_errors, call.p_errors)
       THEN call' = [call EXCEPT !.pc = "returned", !.returned = None]
       ELSE call' = [call EXCEPT !.pc = "validate"]
    /\ UNCHANGED <<pipeline_vars, tool_vars, agent_vars>>

CallValidate ==
    /\ call.pc = "validate"
    /\ call' = [call EXCEPT !.pc = "returned",
                            !.returned = ValidateAnswer(call.output)]
    /\ UNCHANGED <<pipeline_vars, tool_vars, agent_vars>>

NextPrediction ==
    \/ CallEnter
    \/ CallPrepare
    \/ CallKickoff
    \/ CallToolsCheck
    \/ CallValidate

SpecPrediction == Init /\ [][NextPrediction]_vars

----------------------------------------------------------------------------
(* TavilySearchResultsThatWillThrow._run / _arun under tenacity.retry *)

\* The tool is invoked: tenacity starts with attempt 1.
ToolInvoke ==
    /\ tool_pc \in {"idle", "returned", "raised"}
    /\ invocations < MaxInvocations
    /\ \E mode \in {"_run", "_arun"} : tool_mode' = mode
    /\ invocations' = invocations + 1
    /\ attempt_number' = 1
    /\ provider_log' = <<>>
    /\ tool_outcome' = NotSet
    /\ slept' = 0
    /\ tool_pc' = "attempt"
    /\ UNCHANGED <<pipeline_vars, call, agent_vars>>

\* self.api_wrapper.results(...) / results_async(...) returns
ProviderReturns ==
    /\ tool_pc = "attempt"
    /\ \E r \in ProviderResults :
        /\ provider_log' = Append(provider_log, r)
        /\ tool_outcome' = [tag |-> "Returned", value |-> r]
    /\ tool_pc' = "returned"
    /\ UNCHANGED <<tool_mode, attempt_number, invocations, slept>>
    /\ UNCHANGED <<pipeline_vars, call, agent_vars>>

\* The provider call raises: tenacity stops and re-raises it (reraise=True)
\* or goes on to wait.
ProviderRaises ==
    /\ tool_pc = "attempt"
    /\ \E e \in ProviderErrors :
        /\ provider_log' = Append(provider_log, e)
        /\ IF StopAfterAttempt(attempt_number)
           THEN /\ tool_outcome' = Raised(e)
                /\ tool_pc' = "raised"
           ELSE /\ tool_outcome' = tool_outcome
                /\ tool_pc' = "wait"
    /\ UNCHANGED <<tool_mode, attempt_number, invocations, slept>>
    /\ UNCHANGED <<pipeline_vars, call, agent_vars>>

\* The fixed wait is over: next attempt.
ToolRetry ==
    /\ tool_pc = "wait"
    /\ slept' = slept + WaitFixed
    /\ attempt_number' = attempt_number + 1
    /\ tool_pc' = "attempt"
    /\ UNCHANGED <<tool_mode, provider_log, invocations, tool_outcome>>
    /\ UNCHANGED <<pipeline_vars, call, agent_vars>>

NextSearch ==
    \/ ToolInvoke
    \/ ProviderReturns
    \/ ProviderRaises
    \/ ToolRetry

SpecSearch == Init /\ [][NextSearch]_vars

----------------------------------------------------------------------------
(* DeployableKnownOutcomeAgent: pick_markets and answer_binary_market *)

MarketIds == {"m1", "m2"}

\* <<p_yes, p_no>> of a market, in hundredths
MarketProbabilities == {<<95, 5>>, <<96, 4>>, <<4, 96>>}

AgentMarkets ==
    {[id |-> i, p_yes |-> p[1], p_no |-> p[2]] :
        i \in MarketIds, p \in MarketProbabilities}

MarketLists == SeqsUpTo(AgentMarkets, MaxMarkets)

\* What get_known_outcome returns: a result, and what has_known_outcome()
\* says of it.
KnownOutcomes == [result : {"YES", "NO"}, has_known_outcome : BOOLEAN]

\* How has_question_event_happened_in_the_past ends
HappenedOutcomes == {"True", "False", "raise"}

\* The harness calls pick_markets with a list of markets.
pick_markets ==
    /\ agent_pc = "idle"
    /\ pick_calls < MaxPickCalls
    /\ \E ms \in MarketLists : markets' = ms
    /\ picked_markets' = <<>>
    /\ market_idx' = 1
    /\ lookup_raised' = {}
    /\ recorded' = NotSet
    /\ binary_answer' = NotSet
    /\ pick_calls' = pick_calls + 1
    /\ agent_pc' = "for"
    /\ UNCHANGED markets_with_known_outcomes
    /\ UNCHANGED <<pipeline_vars, call, tool_vars>>

\* "if not market_is_saturated(market) and
\*  has_question_event_happened_in_the_past(...)": the second call is made
\* only for a market that is not saturated, and it is outside the try.
LookAtMarket ==
    /\ agent_pc = "for"
    /\ market_idx <= Len(markets)
    /\ IF market_is_saturated(markets[market_idx])
       THEN /\ market_idx' = market_idx + 1
            /\ UNCHANGED agent_pc
       ELSE \E happened \in HappenedOutcomes :
              CASE happened = "True" ->
                     /\ agent_pc' = "get_known_outcome"
                     /\ UNCHANGED market_idx
                [] happened = "False" ->
                     /\ market_idx' = market_idx + 1
                     /\ UNCHANGED agent_pc
                [] happened = "raise" ->
                     /\ agent_pc' = "raised"
                     /\ UNCHANGED market_idx
    /\ UNCHANGED <<markets, picked_markets, markets_with_known_outcomes,
                   lookup_raised, recorded, pick_calls, binary_answer>>
    /\ UNCHANGED <<pipeline_vars, call, tool_vars>>

\* "except Exception as e: ... continue"
KnownOutcomeRaises ==
    /\ agent_pc = "get_known_outcome"
    /\ lookup_raised' = lookup_raised \cup {market_idx}
    /\ market_idx' = market_idx + 1
    /\ agent_pc' = "for"
    /\ UNCHANGED <<markets, picked_markets, markets_with_known_outcomes,
                   recorded, pick_calls, binary_answer>>
    /\ UNCHANGED <<pipeline_vars, call, tool_vars>>

\* get_known_outcome returned: "if answer.has_known_outcome():" appends the
\* market, records the result and returns at once.
KnownOutcomeReturns ==
    /\ agent_pc = "get_known_outcome"
    /\ \E answer \in KnownOutcomes :
        IF answer.has_known_outcome
        THEN /\ picked_markets' = Append(picked_markets, markets[market_idx])
             /\ markets_with_known_outcomes' =
                    DictSet(markets_with_known_outcomes,
                            markets[market_idx].id, answer.result)
             /\ recorded' = answer
             /\ agent_pc' = "returned"
             /\ UNCHANGED market_idx
        ELSE /\ market_idx' = market_idx + 1
             /\ agent_pc' = "for"
             /\ UNCHANGED <<picked_markets, markets_with_known_outcomes,
                            recorded>>
    /\ UNCHANGED <<markets, lookup_raised, pick_calls, binary_answer>>
    /\ UNCHANGED <<pipeline_vars, call, tool_vars>>

\* the for loop is exhausted: "return picked_markets" at the end
ReturnPicked ==
    /\ agent_pc = "for"
    /\ market_idx > Len(markets)
    /\ agent_pc' = "returned"
    /\ UNCHANGED <<markets, market_idx, picked_markets,
                   markets_with_known_outcomes, lookup_raised, recorded,
                   pick_calls, binary_answer>>
    /\ UNCHANGED <<pipeline_vars, call, tool_vars>>

\* DeployableKnownOutcomeAgent.answer_binary_market on a picked market
known_outcome_answer_binary_market ==
    /\ agent_pc = "returned"
    /\ \E k \in 1..Len(picked_markets) :
          binary_answer' =
              DictGet(markets_with_known_outcomes, picked_markets[k].id)
    /\ agent_pc' = "answered"
    /\ UNCHANGED <<markets, market_idx, picked_markets,
                   markets_with_known_outcomes, lookup_raised, recorded,
                   pick_calls>>
    /\ UNCHANGED <<pipeline_vars, call, tool_vars>>

\* The run that called pick_markets is over: its list and its picks are
\* gone, self.markets_with_known_outcomes stays for the next run.
RunDone ==
    /\ \/ agent_pc = "answered"
       \/ agent_pc = "returned" /\ picked_markets = <<>>
    /\ agent_pc' = "idle"
    /\ markets' = <<>>
    /\ market_idx' = 0
    /\ picked_markets' = <<>>
    /\ lookup_raised' = {}
    /\ recorded' = NotSet
    /\ binary_answer' = NotSet
    /\ UNCHANGED <<markets_with_known_outcomes, pick_calls>>
    /\ UNCHANGED <<pipeline_vars, call, tool_vars>>

NextPickMarkets ==
    \/ pick_markets
    \/ LookAtMarket
    \/ KnownOutcomeRaises
    \/ KnownOutcomeReturns
    \/ ReturnPicked
    \/ known_outcome_answer_binary_market
    \/ RunDone

SpecPickMarkets == Init /\ [][NextPickMarkets]_vars

----------------------------------------------------------------------------
(* Properties *)

TaskIdx == 1..Len(tasks)

\* Number of scenarios whose result in `results' is the pair's Answer
ResultCount(pair, scenario_of, results) ==
    Cardinality({i \in 1..Len(results) :
                    scenario_of[i] = pair[1] /\ results[i] = pair[2]})

AllScenarios == hypothetical_scenarios \o conditional_scenarios

\* `pairs' holds exactly the (scenario, Answer) pairs of the scenarios that
\* have an Answer in `results', in any order
IsRoundStateOf(pairs, results) ==
    /\ Len(pairs) = Cardinality({i \in 1..Len(results) : results[i] \in Answers})
    /\ \A s \in ScenarioStrings, a \in Answers :
          Count(<<s, a>>, pairs) = ResultCount(<<s, a>>, AllScenarios, results)

LastResults == [i \in TaskIdx |-> tasks[i].result]

LoopFinished ==
    \/ pc \in {"final", "done"}
    \/ pc = "raised" /\ raised_in = "generate_final_decision"

\* C1: in every round after the first, the previous_scenarios_and_answers
\* that a scenario task puts into its crew inputs is exactly the round state
\* of the round before: the pairs of all scenarios that got an Answer there.
C1_PriorContextIsPreviousRound ==
    \A i \in TaskIdx :
        (iteration >= 1 /\ tasks[i].status = "kickoff")
            => IsRoundStateOf(tasks[i].previous, prev_results)

\* C2: in the first round every scenario task sees an empty
\* previous_scenarios_and_answers: it picks RESEARCH_OUTCOME_PROMPT and puts
\* no previous outputs into its inputs.
C2_FirstRoundNoContext ==
    \A i \in TaskIdx :
        (iteration = 0 /\ sub_predictions = "running")
            => /\ tasks[i].status \in {"started", "kickoff"}
                    => tasks[i].prompt = "RESEARCH_OUTCOME_PROMPT"
               /\ tasks[i].status = "kickoff" => tasks[i].previous = <<>>

\* C3: once get_hypohetical_scenarios has returned, the hypothetical list
\* holds the original question exactly once.
C3_QuestionExactlyOnce ==
    (pc # "get_hypohetical_scenarios" /\ hypothetical_raw.parses)
        => Count(question, hypothetical_scenarios) = 1

\* C4: with n_iterations >= 1 every round submits one task per scenario of
\* the combined list, no round starts beyond n_iterations, and when the loop
\* is left exactly n_iterations rounds have run and
\* generate_prediction_for_one_outcome was called n_iterations times for
\* every scenario.
C4_ExactlyRRounds ==
    n_iterations >= 1 =>
        /\ rounds_run <= n_iterations
        /\ sub_predictions \in {"running", "exhausted"} =>
              /\ Len(tasks) = Len(AllScenarios)
              /\ \A i \in TaskIdx : tasks[i].scenario = AllScenarios[i]
              /\ \A i \in TaskIdx : n_calls[i] \in {rounds_run - 1, rounds_run}
        /\ sub_predictions = "exhausted" =>
              \A i \in TaskIdx : n_calls[i] = rounds_run
        /\ LoopFinished =>
              /\ rounds_run = n_iterations
              /\ iteration = n_iterations
              /\ \A i \in DOMAIN n_calls : n_calls[i] = n_iterations

\* C4 witness: two rounds are over and a scenario that got None in the first
\* round was predicted twice.
C4_Witness ==
    /\ pc = "done"
    /\ n_iterations = 2
    /\ \E i \in TaskIdx : prev_results[i] = None /\ n_calls[i] = 2

\* C5: a finished generate_prediction_for_one_outcome call never raised; it
\* returned None when kickoff raised APIError or HTTPError, when either task
\* counted a tool error, or when the output failed validation; otherwise it
\* returned the validated Answer.
C5_NoneOnFailure ==
    /\ call.pc # "raised"
    /\ call.pc = "returned" =>
          LET failed == \/ call.kick \in {"APIError", "HTTPError"}
                        \/ call.r_errors > 0
                        \/ call.p_errors > 0
                        \/ call.output = Malformed
          IN /\ failed => call.returned = None
             /\ ~failed => (call.returned \in Answers
                            /\ call.returned = call.output)

\* C5 witness: the model's output was a valid Answer but the probability
\* task counted a tool error, and None was returned.
C5_Witness ==
    /\ call.pc = "returned"
    /\ call.kick = "ok"
    /\ call.output \in Answers
    /\ call.r_errors = 0
    /\ call.p_errors > 0
    /\ call.returned = None

\* C6: when no prediction of the run returned an Answer,
\* answer_binary_market does not raise after the scenario generators, never
\* invokes generate_final_decision, and returns None.
C6_AllFailReturnsNone ==
    ~any_answer =>
        /\ raised_in # "generate_final_decision"
        /\ agg_calls = 0
        /\ pc = "done" => final_answer = None

\* C6 witness: two rounds over several scenarios ran, every prediction was
\* None, and None was returned.
C6_Witness ==
    /\ pc = "done"
    /\ rounds_run = 2
    /\ Len(tasks) >= 2
    /\ ~any_answer
    /\ final_answer = None

\* C7: when the final decision's output fails validation,
\* answer_binary_market has raised out of generate_final_decision, has set no
\* final answer, and generate_final_decision ran once only.
C7_MalformedDecisionRaises ==
    agg_output = Malformed =>
        /\ pc = "raised"
        /\ raised_in = "generate_final_decision"
        /\ final_answer = NotSet
        /\ agg_calls = 1

\* C7 witness: the final decision was asked for and its output was malformed.
C7_Witness ==
    /\ agg_calls = 1
    /\ agg_arg # <<>>
    /\ agg_output = Malformed

\* C8: the list given to generate_final_decision holds exactly the scenarios
\* that got an Answer in the last round, each with that round's Answer;
\* nothing of an earlier round is in it.
C8_ReplacedNotMerged ==
    agg_calls > 0 => IsRoundStateOf(agg_arg, LastResults)

\* C8 witness: after two rounds the final decision was asked for; one
\* scenario had an Answer in round one and None in round two, another had
\* different Answers in the two rounds.
C8_Witness ==
    /\ agg_calls > 0
    /\ rounds_run = 2
    /\ \E i \in TaskIdx : prev_results[i] \in Answers /\ tasks[i].result = None
    /\ \E j \in TaskIdx : /\ prev_results[j] \in Answers
                          /\ tasks[j].result \in Answers
                          /\ tasks[j].result # prev_results[j]

AllErrors(log) == \A k \in 1..Len(log) : log[k] \in ProviderErrors

\* C10: one tool invocation calls the provider at most 3 times; it returns
\* the first successful result, goes on to another attempt after a failure
\* only while fewer than 3 attempts were made, and after the third failure
\* raises that failure's error.
C10_AtMostThreeAttempts ==
    /\ Len(provider_log) <= 3
    /\ tool_pc = "attempt" =>
          /\ Len(provider_log) = attempt_number - 1
          /\ AllErrors(provider_log)
    /\ tool_pc = "wait" =>
          /\ Len(provider_log) = attempt_number
          /\ Len(provider_log) < 3
          /\ AllErrors(provider_log)
    /\ tool_pc = "returned" =>
          /\ provider_log # <<>>
          /\ provider_log[Len(provider_log)] \in ProviderResults
          /\ AllErrors(SubSeq(provider_log, 1, Len(provider_log) - 1))
          /\ tool_outcome = [tag |-> "Returned",
                             value |-> provider_log[Len(provider_log)]]
    /\ tool_pc = "raised" =>
          /\ Len(provider_log) = 3
          /\ AllErrors(provider_log)
          /\ tool_outcome = Raised(provider_log[3])

\* C10 witness: three provider calls failed, two waits lay between them, and
\* the third error was raised.
C10_Witness ==
    /\ tool_pc = "raised"
    /\ Len(provider_log) = 3
    /\ slept = 2 * WaitFixed
    /\ tool_outcome = Raised(provider_log[3])

\* Pairs of the tasks of the running round that were yielded with an Answer
YieldedResults ==
    [i \in TaskIdx |-> IF tasks[i].status = "yielded"
                       THEN tasks[i].result ELSE None]

C12_JoinBarrierNoSharing ==
    /\ \A i \in TaskIdx :
          /\ (tasks[i].status \in {"started", "kickoff"}
              /\ tasks[i].prompt = "RESEARCH_OUTCOME_WITH_PREVIOUS_OUTPUTS_PROMPT")
                => \E m \in 1..Len(prev_results) : prev_results[m] \in Answers
          /\ tasks[i].status = "kickoff" =>
                \A k \in 1..Len(tasks[i].previous) :
                    \E m \in 1..Len(prev_results) :
                        /\ AllScenarios[m] = tasks[i].previous[k][1]
                        /\ prev_results[m] = tasks[i].previous[k][2]

AllYielded == \A i \in TaskIdx : tasks[i].status = "yielded"

\* C13: rounds are strictly sequenced.  Every task that is underway belongs
\* to the round of the current iteration; whenever answer_binary_market is
\* outside the for loop over sub_predictions (between rounds, creating the
\* next generator, at or after the final decision) every submitted task has
\* been yielded; generate_final_decision is invoked only after the last
\* round's tasks were all yielded.
C13_RoundsSequenced ==
    /\ sub_predictions = "running" =>
          /\ pc = "for"
          /\ rounds_run = iteration + 1
          /\ \A i \in TaskIdx :
                tasks[i].status # "pending" => n_calls[i] = rounds_run
    /\ (pc # "for" \/ sub_predictions # "running") => AllYielded
    /\ agg_calls > 0 => (AllYielded /\ rounds_run = n_iterations)

\* C13 witness: a task of round two is underway and every scenario had its
\* round-one task finished before.
C13_Witness ==
    /\ rounds_run = 2
    /\ sub_predictions = "running"
    /\ Len(tasks) >= 2
    /\ Len(prev_results) = Len(tasks)
    /\ \A m \in 1..Len(prev_results) : prev_results[m] # NotSet
    /\ \E i \in TaskIdx : tasks[i].status = "started"
    /\ \E j \in TaskIdx : tasks[j].status = "pending"

\* C14: when the model output of a scenario generator (hypothetical or
\* conditional) does not parse as the list-of-strings schema, the generator
\* raises after that one call (it is not called again), answer_binary_market
\* ends with that error, no scenario prediction was started and the
\* aggregator was not invoked.
C14_UnparsableScenariosRaise ==
    /\ (gen_calls.hypothetical > 0 /\ ~hypothetical_raw.parses)
          => /\ pc = "raised"
             /\ raised_in = "get_hypohetical_scenarios"
             /\ gen_calls = [hypothetical |-> 1, conditional |-> 0]
             /\ hypothetical_scenarios = <<>>
             /\ rounds_run = 0
             /\ tasks = <<>>
             /\ agg_calls = 0
             /\ final_answer = NotSet
    /\ (gen_calls.conditional > 0 /\ ~conditional_raw.parses)
          => /\ pc = "raised"
             /\ raised_in = "get_required_conditions"
             /\ gen_calls = [hypothetical |-> 1, conditional |-> 1]
             /\ conditional_scenarios = <<>>
             /\ rounds_run = 0
             /\ tasks = <<>>
             /\ agg_calls = 0
             /\ final_answer = NotSet

C14_Witness ==
    /\ pc = "raised"
    /\ raised_in = "get_required_conditions"
    /\ gen_calls.conditional = 1
    /\ ~conditional_raw.parses
    /\ hypothetical_raw.parses
    /\ Len(hypothetical_scenarios) = 2
    /\ n_iterations = 2

\* C15: generate_final_decision is invoked at most once in a run, only once
\* every round has finished, never with an empty list of pairs, and what
\* answer_binary_market returns is the Answer that this invocation returned.
C15_FinalDecisionOnce ==
    /\ agg_calls <= 1
    /\ agg_calls > 0
          => /\ agg_arg # <<>>
             /\ \A k \in 1..Len(agg_arg) : agg_arg[k][2] \in Answers
             /\ iteration = n_iterations
             /\ rounds_run = n_iterations
             /\ sub_predictions = "exhausted"
             /\ GeneratorExhausted(tasks)
    /\ pc = "done"
          => IF agg_calls = 1
             THEN final_answer \in Answers /\ final_answer = agg_output
             ELSE final_answer = None

C15_Witness ==
    /\ pc = "done"
    /\ agg_calls = 1
    /\ final_answer \in Answers
    /\ final_answer = agg_output
    /\ rounds_run = 2
    /\ Len(agg_arg) = 2
    /\ Len(tasks) = 3

\* C16: each of the two scenario sets is generated once in a run, the
\* hypothetical set before the conditional one and both before the first
\* scenario prediction; the rounds leave the sets as they were generated, and
\* the task list of every round is the hypothetical scenarios followed by the
\* conditional scenarios.
C16_ScenarioSetsFixed ==
    /\ gen_calls.hypothetical <= 1
    /\ gen_calls.conditional <= gen_calls.hypothetical
    /\ rounds_run >= 1
          => /\ gen_calls = [hypothetical |-> 1, conditional |-> 1]
             /\ hypothetical_scenarios =
                    AddOriginalQuestion(hypothetical_raw.scenarios, question)
             /\ conditional_scenarios = conditional_raw.scenarios
             /\ Len(tasks) = Len(hypothetical_scenarios)
                                + Len(conditional_scenarios)
             /\ \A i \in 1..Len(hypothetical_scenarios) :
                    tasks[i].scenario = hypothetical_scenarios[i]
             /\ \A i \in 1..Len(conditional_scenarios) :
                    tasks[Len(hypothetical_scenarios) + i].scenario =
                        conditional_scenarios[i]

C16_Witness ==
    /\ rounds_run = 2
    /\ sub_predictions = "running"
    /\ hypothetical_scenarios = <<"A", "Q">>
    /\ conditional_scenarios = <<"A">>
    /\ \A i \in TaskIdx : tasks[i].status = "completed"

\* C19: after every round the collected pairs are a mapping: no scenario
\* string has more than one Answer, also when a generator repeats a scenario
\* or a string is in both the hypothetical and the conditional set.
C19_RoundStateIsMapping ==
    sub_predictions = "exhausted"
        => \A k, l \in 1..Len(scenarios_with_probs) :
              scenarios_with_probs[k][1] = scenarios_with_probs[l][1] => k = l

\* C20: with n_iterations <= 0 both scenario sets are still generated, no
\* scenario prediction is started, the aggregator is not invoked, and once
\* the sets are generated the pipeline does not raise and returns None.
C20_NoRoundsReturnsNone ==
    n_iterations <= 0
        => /\ rounds_run = 0
           /\ tasks = <<>>
           /\ \A i \in DOMAIN n_calls : n_calls[i] = 0
           /\ scenarios_with_probs = <<>>
           /\ agg_calls = 0
           /\ pc \in {"loop", "final", "done"}
                 => gen_calls = [hypothetical |-> 1, conditional |-> 1]
           /\ pc = "raised"
                 => raised_in \in {"get_hypohetical_scenarios",
                                   "get_required_conditions"}
           /\ pc \notin {"get_hypohetical_scenarios", "get_required_conditions",
                          "raised"}
                 => pc \in {"loop", "final", "done"}
           /\ pc = "done" => final_answer = None

C20_Witness ==
    /\ n_iterations <= 0
    /\ pc = "done"
    /\ final_answer = None
    /\ gen_calls = [hypothetical |-> 1, conditional |-> 1]
    /\ conditional_scenarios # <<>>
    /\ rounds_run = 0

\* C21: pick_markets returns at most one market; every market it returns is
\* one of its input, is not saturated (p_yes <= 0.95 and p_no <= 0.95) and
\* has its result recorded in markets_with_known_outcomes, so that
\* answer_binary_market on it finds that result; a market whose
\* get_known_outcome raised is not picked and the scan goes on behind it.
C21_PickAtMostOneKnown ==
    /\ Len(picked_markets) <= 1
    /\ \A k \in 1..Len(picked_markets) :
          /\ agent_pc \in {"returned", "answered"}
          /\ picked_markets[k] = markets[market_idx]
          /\ picked_markets[k].p_yes <= SaturationThreshold
          /\ picked_markets[k].p_no <= SaturationThreshold
          /\ picked_markets[k].id \in DOMAIN markets_with_known_outcomes
          /\ recorded \in KnownOutcomes
          /\ markets_with_known_outcomes[picked_markets[k].id] = recorded.result
    /\ agent_pc = "answered"
          => /\ binary_answer.kind = "found"
             /\ binary_answer.result = recorded.result
    /\ \A i \in lookup_raised : i < market_idx
    /\ (agent_pc \in {"returned", "answered"} /\ picked_markets = <<>>)
          => market_idx = Len(markets) + 1

C21_Witness ==
    /\ agent_pc = "answered"
    /\ pick_calls = 2
    /\ Len(markets) = 3
    /\ lookup_raised = {1}
    /\ market_is_saturated(markets[2])
    /\ picked_markets = <<markets[3]>>
    /\ markets[1].id = markets[3].id
    /\ DOMAIN markets_with_known_outcomes = MarketIds
    /\ binary_answer = [kind |-> "found", result |-> recorded.result]

====
